---- MODULE Spec2Model ----
(***************************************************************************)
(* Model of the quEDU experiment scripts (src/files/base.py, hbt.py,       *)
(* tom.py): the per-channel latch written by the asynchronous data         *)
(* callback and read/cleared by the acquisition loop, the motor            *)
(* synchroniser _move_motors_to_targets, and the sequencing of run().      *)
(*                                                                         *)
(* Two execution contexts are modelled: the main thread (variable pc is    *)
(* its position in the script) and the hardware context that invokes       *)
(* data_callback and moves the motors.  The main thread is interleaved     *)
(* with the hardware at statement granularity wherever a statement reads   *)
(* or writes a latch slot.                                                 *)
(*                                                                         *)
(* A Sample is the count value data[0] of one notification; it is          *)
(* represented by its provenance [ch, win]: the channel identifier of the  *)
(* notification and the detection window it was produced in.               *)
(*                                                                         *)
(* Time is counted in ticks of 0.05 s, the sleep of the motor polling loop.*)
(***************************************************************************)
EXTENDS Integers, Sequences, FiniteSets, TLC

\* ------------------------------------------------------------------ bounds
MaxSamples == 2      \* largest n_samples tried
MaxSettings == 2     \* run() processes this many leading entries of positions
MaxWindow == 2       \* detection windows the event source produces
MaxWait == 2         \* largest sub-second wait_time tried, in ticks
MaxLag == 1          \* extra ticks a polling round may take beyond its sleep
MaxOff == 2          \* farthest a motor is from its target, in steps
MaxCount == 1        \* largest average tried in the varied rows of a CSV table
MaxLevel == 2        \* largest average tried in the other rows of the table
MaxAngle == 360      \* largest whole angle, in degrees, that is converted

\* --------------------------------------------------------------- constants
STEPS_PER_REV == 4800
FULL_TURN_DEG == 360
TOLERANCE == 1
POLL_SLEEP == 1      \* time.sleep(0.05) of the polling loop: one tick
TICKS_PER_SECOND == 20

Variants == {"BASE", "HBT", "SingleQubit", "DoubleQubit"}
IsTomography(v) == v \in {"SingleQubit", "DoubleQubit"}

\* The empty latch slot (Python None), shaped like a Sample.
None == [ch |-> 0, win |-> 0]
Sample(c, w) == [ch |-> c, win |-> w]

\* ------------------------------------------------------------ static data
\* quEDU_Logic.__init__: the channel identifiers of each script, and the
\* latch slot data_callback writes for each.
ChannelSlot(v) ==
  CASE v = "BASE" -> (9 :> "ch1") @@ (10 :> "ch2") @@ (12 :> "ch3") @@ (13 :> "ch4")
    [] v = "HBT"  -> (9 :> "ch1") @@ (10 :> "ch2") @@ (12 :> "ch3")
                     @@ (8 :> "coinc12") @@ (14 :> "coinc23")
    [] OTHER      -> (9 :> "ch1") @@ (10 :> "ch2") @@ (8 :> "coinc")

ConfiguredChannels(v) == DOMAIN ChannelSlot(v)

\* The _current_* attributes of the collector.
Slots(v) == {ChannelSlot(v)[c] : c \in ConfiguredChannels(v)}

\* Fault: 90 degrees are subtracted from the wave-plate angles without
\* folding the result back into the range the motors accept.
projectionsUnfolded ==
  [l \in {"H", "V", "P", "M", "R", "L"} |->
     CASE l = "H" -> [qwp |-> -90, pol |-> 0]
       [] l = "V" -> [qwp |-> -90, pol |-> 90]
       [] l = "P" -> [qwp |-> -45, pol |-> 45]
       [] l = "M" -> [qwp |-> -45, pol |-> 135]
       [] l = "R" -> [qwp |-> -45, pol |-> 90]
       [] l = "L" -> [qwp |-> -45, pol |-> 0]]

\* BaseQubit.projections: wave-plate and polariser angle (degrees) of each
\* projection letter.
projections ==
  [l \in {"H", "V", "P", "M", "R", "L"} |->
     CASE l = "H" -> [qwp |-> 90,  pol |-> 0]
       [] l = "V" -> [qwp |-> 90,  pol |-> 90]
       [] l = "P" -> [qwp |-> 135, pol |-> 45]
       [] l = "M" -> [qwp |-> 135, pol |-> 135]
       [] l = "R" -> [qwp |-> 135, pol |-> 90]
       [] l = "L" -> [qwp |-> 135, pol |-> 0]]

MOTOR_MAP == [c \in {"QWP1", "Pol1", "QWP2", "Pol2"} |->
                CASE c = "QWP1" -> 2 [] c = "Pol1" -> 3
                  [] c = "QWP2" -> 1 [] c = "Pol2" -> 4]

\* A Setting is the tuple of its letters ("HV" is <<"H","V">>).
DoublePositions ==
  << <<"H","H">>, <<"H","V">>, <<"V","H">>, <<"V","V">>,
     <<"P","P">>, <<"P","M">>, <<"M","P">>, <<"M","M">>,
     <<"R","R">>, <<"R","L">>, <<"L","R">>, <<"L","L">>,
     <<"H","P">>, <<"H","M">>, <<"V","P">>, <<"V","M">>,
     <<"H","R">>, <<"H","L">>, <<"V","L">>, <<"V","R">>,
     <<"P","H">>, <<"M","H">>, <<"P","V">>, <<"M","V">>,
     <<"R","H">>, <<"L","H">>, <<"L","V">>, <<"R","V">>,
     <<"P","R">>, <<"P","L">>, <<"M","R">>, <<"M","L">>,
     <<"R","P">>, <<"L","P">>, <<"R","M">>, <<"L","M">> >>

SinglePositions == << <<"H">>, <<"V">>, <<"P">>, <<"M">>, <<"R">>, <<"L">> >>

\* BASE.run and HBT.run measure one fixed position name.
positions(v) ==
  CASE v = "DoubleQubit" -> DoublePositions
    [] v = "SingleQubit" -> SinglePositions
    [] v = "BASE"        -> << <<"BASE">> >>
    [] v = "HBT"         -> << <<"HBT">> >>

Min(a, b) == IF a <= b THEN a ELSE b
Abs(x) == IF x < 0 THEN -x ELSE x

\* Number of Settings a run of the model goes through.
RunLen(v) == Min(Len(positions(v)), MaxSettings)
RunPositions(v) == {positions(v)[i] : i \in 1..RunLen(v)}

\* round(angle * DEG_TO_STEP) with DEG_TO_STEP = STEPS_PER_REV / 360.0, for
\* a whole number of degrees >= 0: rounding to the nearest step (the
\* fraction is a multiple of 1/3, so no tie arises).
angle_to_steps(angle) ==
  (2 * angle * STEPS_PER_REV + FULL_TURN_DEG) \div (2 * FULL_TURN_DEG)

\* set_components: the targets dict, in insertion order.
Targets(v, p) ==
  CASE v = "DoubleQubit" ->
         << [motor |-> MOTOR_MAP["QWP1"], steps |-> angle_to_steps(projections[p[1]].qwp)],
            [motor |-> MOTOR_MAP["Pol1"], steps |-> angle_to_steps(projections[p[1]].pol)],
            [motor |-> MOTOR_MAP["QWP2"], steps |-> angle_to_steps(projections[p[2]].qwp)],
            [motor |-> MOTOR_MAP["Pol2"], steps |-> angle_to_steps(projections[p[2]].pol)] >>
    [] v = "SingleQubit" ->
         << [motor |-> MOTOR_MAP["QWP1"], steps |-> angle_to_steps(projections[p[1]].qwp)],
            [motor |-> MOTOR_MAP["Pol1"], steps |-> angle_to_steps(projections[p[1]].pol)] >>
    [] OTHER -> << >>

\* DoubleQubit.required_components, SingleQubit.required_components
required_components(v) ==
  CASE v = "DoubleQubit" -> {"QWP1", "Pol1", "QWP2", "Pol2"}
    [] v = "SingleQubit" -> {"QWP1", "Pol1"}
    [] OTHER -> {}

Motors(v) ==
  CASE v = "DoubleQubit" -> {MOTOR_MAP[c] : c \in {"QWP1", "Pol1", "QWP2", "Pol2"}}
    [] v = "SingleQubit" -> {MOTOR_MAP[c] : c \in {"QWP1", "Pol1"}}
    [] OTHER -> {}

\* measure / measure_position: the slots appended, in statement order.
AppendOrder(v) ==
  CASE v = "BASE"        -> <<"ch1", "ch2", "ch3", "ch4">>
    [] v = "HBT"         -> <<"ch1", "ch2", "ch3", "coinc12", "coinc23">>
    [] v = "DoubleQubit" -> <<"ch1", "ch2", "coinc">>
    [] v = "SingleQubit" -> <<"ch1">>

\* measure / measure_position: the slots reset to None, in statement order.
SingleClearOrder == <<"ch2">>
ClearOrder(v) ==
  IF v = "SingleQubit" THEN SingleClearOrder ELSE AppendOrder(v)

\* The slots the polling while-loop of measure / measure_position waits on.
WaitSlots(v) == {AppendOrder(v)[i] : i \in 1..Len(AppendOrder(v))}

\* The drivers the hasattr probes of _move_motors_to_targets tell apart.
HwKinds ==
  { [setIdx |-> TRUE,  setGeneric |-> FALSE, get |-> TRUE],    \* quEDU_ED_Python
    [setIdx |-> FALSE, setGeneric |-> TRUE,  get |-> FALSE],   \* quEDU_Python
    [setIdx |-> FALSE, setGeneric |-> FALSE, get |-> FALSE] }  \* neither setter

\* Value of final while Step 3 has not read a position: positions are >= 0.
NoPosition == -1
\* Step 3 only prints what it reads, and the history early is read by no
\* statement.  Specifications that do not look at them leave them out:
\* final and early then hold these values throughout, and the loop of
\* Step 3, which changes nothing else, is passed over.
NotFollowed == -2
NotKept == {"not kept"}
\* Values of ret, the result of the last _move_motors_to_targets call.
NotCalled == [kind |-> "not called"]
PyNone == [kind |-> "None"]
Flags(d) == [kind |-> "flags", flags |-> d]

\* ------------------------------------------------------------- arithmetic
\* calc_results computes with Python floats and numpy complex numbers.  They
\* are modelled by exact rationals <<numerator, denominator>> in lowest
\* terms with a positive denominator, and by complex numbers [re, im] over
\* them: rounding of the floating-point operations is left out.
RECURSIVE GCD(_, _)
GCD(a, b) == IF b = 0 THEN a ELSE GCD(b, a % b)

Rat(n, d) ==
  LET g == GCD(Abs(n), Abs(d))
      sgn == IF d < 0 THEN -1 ELSE 1
  IN  <<sgn * (n \div g), sgn * (d \div g)>>

Zero == <<0, 1>>
One == <<1, 1>>
Third == <<1, 3>>
Half == <<1, 2>>
Quarter == <<1, 4>>
Float(n) == <<n, 1>>
RAdd(x, y) == Rat(x[1] * y[2] + y[1] * x[2], x[2] * y[2])
RNeg(x) == <<-x[1], x[2]>>
RSub(x, y) == RAdd(x, RNeg(y))
RMul(x, y) == Rat(x[1] * y[1], x[2] * y[2])
RDiv(x, y) == Rat(x[1] * y[2], x[2] * y[1])       \* y # Zero
RLess(x, y) == x[1] * y[2] < y[1] * x[2]
RMax(x, y) == IF RLess(x, y) THEN y ELSE x

\* x1 + x2 - x3 - x4 and x1 - x2 - x3 + x4, the two shapes of the sums of
\* frequencies in calc_results, evaluated left to right.
PPMM(x1, x2, x3, x4) == RSub(RSub(RAdd(x1, x2), x3), x4)
\* Fault: the correlation is summed with all signs positive.
PPPP(x1, x2, x3, x4) == RAdd(RAdd(RAdd(x1, x2), x3), x4)
PMMP(x1, x2, x3, x4) == RAdd(RSub(RSub(x1, x2), x3), x4)

Cx(re, im) == [re |-> re, im |-> im]
CReal(x) == Cx(x, Zero)
CZero == Cx(Zero, Zero)
COne == Cx(One, Zero)
CI == Cx(Zero, One)                               \* 1j
CAdd(a, b) == Cx(RAdd(a.re, b.re), RAdd(a.im, b.im))
CNeg(a) == Cx(RNeg(a.re), RNeg(a.im))
CSub(a, b) == CAdd(a, CNeg(b))
CMul(a, b) ==
  Cx(RSub(RMul(a.re, b.re), RMul(a.im, b.im)),
     RAdd(RMul(a.re, b.im), RMul(a.im, b.re)))
CScale(r, a) == Cx(RMul(r, a.re), RMul(r, a.im))
CJ(r) == Cx(Zero, r)                              \* 1j * r
Conj(a) == Cx(a.re, RNeg(a.im))
\* |a|^2: np.abs would take the square root, which is not rational.
AbsSq(a) == RAdd(RMul(a.re, a.re), RMul(a.im, a.im))

\* Square matrices are tuples of rows.
Dim(A) == Len(A)
MAdd(A, B) == [i \in 1..Dim(A) |-> [j \in 1..Dim(A) |-> CAdd(A[i][j], B[i][j])]]
MScale(c, A) == [i \in 1..Dim(A) |-> [j \in 1..Dim(A) |-> CMul(c, A[i][j])]]
ConjT(A) == [i \in 1..Dim(A) |-> [j \in 1..Dim(A) |-> Conj(A[j][i])]]
RECURSIVE CSum(_, _)
CSum(f, n) == IF n = 0 THEN CZero ELSE CAdd(CSum(f, n - 1), f[n])
MMul(A, B) ==
  [i \in 1..Dim(A) |-> [j \in 1..Dim(A) |->
     CSum([m \in 1..Dim(A) |-> CMul(A[i][m], B[m][j])], Dim(A))]]
Trace(A) == CSum([i \in 1..Dim(A) |-> A[i][i]], Dim(A))
RECURSIVE RMaxOf(_, _)
RMaxOf(f, n) == IF n = 1 THEN f[1] ELSE RMax(RMaxOf(f, n - 1), f[n])
\* np.max(np.abs(A - B)), squared
MaxAbsSqDiff(A, B) ==
  RMaxOf([i \in 1..Dim(A) |->
            RMaxOf([j \in 1..Dim(A) |-> AbsSq(CSub(A[i][j], B[i][j]))], Dim(A))],
         Dim(A))
\* np.kron of two 2x2 matrices
Kron(A, B) ==
  [i \in 1..4 |-> [j \in 1..4 |->
     CMul(A[((i - 1) \div 2) + 1][((j - 1) \div 2) + 1],
          B[((i - 1) % 2) + 1][((j - 1) % 2) + 1])]]

\* ------------------------------------------------------------- conversion
\* DEG_TO_STEP = STEPS_PER_REV / 360.0
DEG_TO_STEP == Rat(STEPS_PER_REV, FULL_TURN_DEG)

\* Python's round(x) of a float: the nearest integer, a tie going to the
\* even one.
round(x) ==
  LET f == x[1] \div x[2]
      r2 == 2 * (x[1] - f * x[2])
  IN  IF r2 < x[2] THEN f
      ELSE IF r2 > x[2] THEN f + 1
      ELSE IF f % 2 = 0 THEN f ELSE f + 1

\* Fault: the step count wraps around at a full revolution.
angle_to_steps_wrapped(angle) == round(RMul(angle, DEG_TO_STEP)) % STEPS_PER_REV

\* _angle_to_steps(angle) for any float angle: round(angle * DEG_TO_STEP)
angle_to_steps_float(angle) == round(RMul(angle, DEG_TO_STEP))

\* Fault: the degrees are cut down to a whole number.
steps_to_whole_deg(final) == Float(RDiv(Float(final), DEG_TO_STEP)[1] \div RDiv(Float(final), DEG_TO_STEP)[2])

\* deg = final / DEG_TO_STEP of Step 3 of _move_motors_to_targets
steps_to_deg(final) == RDiv(Float(final), DEG_TO_STEP)

\* ------------------------------------------------------------ calc_results
\* Fault: the last basis lists RM twice and leaves LM out.
groupsRepeated ==
  << << <<"H","H">>, <<"H","V">>, <<"V","H">>, <<"V","V">> >>,
     << <<"P","P">>, <<"P","M">>, <<"M","P">>, <<"M","M">> >>,
     << <<"R","R">>, <<"R","L">>, <<"L","R">>, <<"L","L">> >>,
     << <<"H","P">>, <<"H","M">>, <<"V","P">>, <<"V","M">> >>,
     << <<"H","R">>, <<"H","L">>, <<"V","R">>, <<"V","L">> >>,
     << <<"P","H">>, <<"M","H">>, <<"P","V">>, <<"M","V">> >>,
     << <<"R","H">>, <<"L","H">>, <<"L","V">>, <<"R","V">> >>,
     << <<"P","R">>, <<"P","L">>, <<"M","R">>, <<"M","L">> >>,
     << <<"R","P">>, <<"L","P">>, <<"R","M">>, <<"R","M">> >> >>

\* DoubleQubit.calc_results: the nine bases, in the order of the dict.
groups ==
  << << <<"H","H">>, <<"H","V">>, <<"V","H">>, <<"V","V">> >>,
     << <<"P","P">>, <<"P","M">>, <<"M","P">>, <<"M","M">> >>,
     << <<"R","R">>, <<"R","L">>, <<"L","R">>, <<"L","L">> >>,
     << <<"H","P">>, <<"H","M">>, <<"V","P">>, <<"V","M">> >>,
     << <<"H","R">>, <<"H","L">>, <<"V","R">>, <<"V","L">> >>,
     << <<"P","H">>, <<"M","H">>, <<"P","V">>, <<"M","V">> >>,
     << <<"R","H">>, <<"L","H">>, <<"L","V">>, <<"R","V">> >>,
     << <<"P","R">>, <<"P","L">>, <<"M","R">>, <<"M","L">> >>,
     << <<"R","P">>, <<"L","P">>, <<"R","M">>, <<"L","M">> >> >>

\* str.lower on a position name; the result is the key of freq.
LowerLetter ==
  [l \in {"H", "V", "P", "M", "R", "L"} |->
     CASE l = "H" -> "h" [] l = "V" -> "v" [] l = "P" -> "p"
       [] l = "M" -> "m" [] l = "R" -> "r" [] l = "L" -> "l"]
lower(o) == LowerLetter[o[1]] \o LowerLetter[o[2]]

\* C = lambda name: pos_to_coinc.get(name, 0.0), on the table t
Coinc(t, name) == IF name \in DOMAIN t THEN t[name] ELSE Zero

\* Fault: the sum stops one member short.
DenShort(t, outcomes) ==
  RAdd(RAdd(RAdd(Zero, Coinc(t, outcomes[1])), Coinc(t, outcomes[2])),
       Coinc(t, outcomes[3]))

\* den = sum(C(o) for o in outcomes)
Den(t, outcomes) ==
  RAdd(RAdd(RAdd(RAdd(Zero, Coinc(t, outcomes[1])), Coinc(t, outcomes[2])),
            Coinc(t, outcomes[3])), Coinc(t, outcomes[4]))

ZeroGroups(t) == {g \in 1..Len(groups) : Den(t, groups[g]) = Zero}

\* The group at which the loop raises ValueError; 0 if it runs through.
RaisingGroup(t) ==
  IF ZeroGroups(t) = {} THEN 0
  ELSE CHOOSE g \in ZeroGroups(t) : \A h \in ZeroGroups(t) : g <= h

\* Fault: no warning is issued for a zero average.
ZeroWarningsNone(t) == {}

\* The positions for which the loop calls warnings.warn before it ends.
ZeroWarnings(t) ==
  LET last == IF RaisingGroup(t) = 0 THEN Len(groups) ELSE RaisingGroup(t)
  IN  {groups[g][i] : g \in 1..last, i \in 1..4} \cap
      {o \in {groups[g][i] : g \in 1..Len(groups), i \in 1..4} : Coinc(t, o) = Zero}

\* freq after the loop has normalised the first n groups.
Frequencies(t, n) ==
  LET keys == {lower(groups[g][i]) : g \in 1..n, i \in 1..4}
      where(key) == CHOOSE gi \in (1..n) \X (1..4) :
                      lower(groups[gi[1]][gi[2]]) = key
  IN  [key \in keys |->
         LET gi == where(key)
         IN  RDiv(Coinc(t, groups[gi[1]][gi[2]]), Den(t, groups[gi[1]])) ]

\* freq when the loop ends: by running through, or by raising at a group.
FinalFrequencies(t) ==
  Frequencies(t, IF RaisingGroup(t) = 0 THEN Len(groups) ELSE RaisingGroup(t) - 1)

\* The Stokes parameters as calc_results computes them from freq.
Stokes(f) ==
  [ T00 |-> One,
    TZZ |-> PMMP(f["hh"], f["hv"], f["vh"], f["vv"]),
    TXX |-> PMMP(f["pp"], f["pm"], f["mp"], f["mm"]),
    TYY |-> PMMP(f["rr"], f["rl"], f["lr"], f["ll"]),
    TZ0 |-> RMul(Third, RAdd(RAdd(PPMM(f["hp"], f["hm"], f["vp"], f["vm"]),
                                  PPMM(f["hr"], f["hl"], f["vr"], f["vl"])),
                             PPMM(f["hh"], f["hv"], f["vh"], f["vv"]))),
    T0Z |-> RMul(Third, RAdd(RAdd(PPMM(f["ph"], f["mh"], f["pv"], f["mv"]),
                                  PPMM(f["rh"], f["lh"], f["rv"], f["lv"])),
                             PPMM(f["hh"], f["hv"], f["vh"], f["vv"]))),
    TX0 |-> RMul(Third, RAdd(RAdd(PPMM(f["pp"], f["pm"], f["mp"], f["mm"]),
                                  PPMM(f["pr"], f["pl"], f["mr"], f["ml"])),
                             PPMM(f["ph"], f["pv"], f["mh"], f["mv"]))),
    T0X |-> RMul(Third, RAdd(RAdd(PPMM(f["pp"], f["pm"], f["mp"], f["mm"]),
                                  PPMM(f["rp"], f["lp"], f["rm"], f["lm"])),
                             PPMM(f["hp"], f["vp"], f["hm"], f["vm"]))),
    TY0 |-> RMul(Third, RAdd(RAdd(PPMM(f["rp"], f["rm"], f["lp"], f["lm"]),
                                  PPMM(f["rr"], f["rl"], f["lr"], f["ll"])),
                             PPMM(f["rh"], f["rv"], f["lh"], f["lv"]))),
    T0Y |-> RMul(Third, RAdd(RAdd(PPMM(f["pr"], f["mr"], f["pl"], f["ml"]),
                                  PPMM(f["rr"], f["lr"], f["rl"], f["ll"])),
                             PPMM(f["hr"], f["vr"], f["hl"], f["vl"]))),
    TXZ |-> PMMP(f["hp"], f["hm"], f["vp"], f["vm"]),
    TZX |-> PMMP(f["ph"], f["mh"], f["pv"], f["mv"]),
    TXY |-> PMMP(f["hr"], f["hl"], f["vr"], f["vl"]),
    TYX |-> PMMP(f["rh"], f["lh"], f["rv"], f["lv"]),
    TZY |-> PMMP(f["rh"], f["lh"], f["lv"], f["rv"]),
    TYZ |-> PMMP(f["hr"], f["hl"], f["vl"], f["vr"]) ]

\* The four kinds of term of an entry of rho: x, -x, 1j*x, -1j*x.
P(x) == CReal(x)
N(x) == CReal(RNeg(x))
PJ(x) == CJ(x)
NJ(x) == CJ(RNeg(x))
Entry(t1, t2, t3, t4) == CAdd(CAdd(CAdd(t1, t2), t3), t4)

\* rho = (1.0/4.0) * np.array([...]) of DoubleQubit.calc_results, entry by
\* entry as written in the source.
DoubleRho(T) ==
  MScale(CReal(Quarter),
    << << Entry(P(T.T00), P(T.T0Z),  P(T.TZ0),  P(T.TZZ)),
          Entry(P(T.T0X), NJ(T.T0Y), N(T.TZX),  NJ(T.TZY)),
          Entry(P(T.TX0), P(T.TXZ),  NJ(T.TY0), NJ(T.TYZ)),
          Entry(P(T.TXX), NJ(T.TXY), NJ(T.TYX), N(T.TYY)) >>,
       << Entry(P(T.T0X), PJ(T.T0Y), P(T.TZX),  PJ(T.TZY)),
          Entry(P(T.T00), N(T.T0Z),  P(T.TZ0),  N(T.TZZ)),
          Entry(P(T.TXX), PJ(T.TXY), NJ(T.TYX), P(T.TYY)),
          Entry(P(T.TX0), N(T.TXZ),  NJ(T.TY0), PJ(T.TYZ)) >>,
       << Entry(P(T.TX0), P(T.TXZ),  PJ(T.TY0), PJ(T.TYZ)),
          Entry(P(T.TXX), NJ(T.TXY), PJ(T.TYX), P(T.TYY)),
          Entry(P(T.T00), P(T.T0Z),  N(T.TZ0),  N(T.TZZ)),
          Entry(P(T.T0X), NJ(T.T0Y), N(T.TZX),  PJ(T.TZY)) >>,
       << Entry(P(T.TXX), PJ(T.TXY), PJ(T.TYX), N(T.TYY)),
          Entry(P(T.TX0), N(T.TXZ),  PJ(T.TY0), NJ(T.TYX)),
          Entry(P(T.T0X), PJ(T.T0Y), N(T.TZX),  NJ(T.TZY)),
          Entry(P(T.T00), N(T.T0Z),  N(T.TZ0),  P(T.TZZ)) >> >>)

\* The results dict: rho and its diagnostics.  hermiticity2 is the square of
\* results["hermiticity"].
Results(rho) ==
  [ kind |-> "results",
    rho |-> rho,
    hermiticity2 |-> MaxAbsSqDiff(rho, ConjT(rho)),
    trace |-> Trace(rho),
    purity |-> Trace(MMul(rho, rho)).re ]
\* Fault: the exception is swallowed and handed back as a result.
Swallowed(e) == [kind |-> "results", error |-> e]
Raised(e) == [kind |-> "raised", error |-> e]

DoubleQubit_calc_results(t) ==
  IF RaisingGroup(t) # 0 THEN Raised("ValueError")
  ELSE Results(DoubleRho(Stokes(FinalFrequencies(t))))

\* SingleQubit.calc_results: the matrices it calls Pauli matrices.
s_0 == << <<COne, CZero>>, <<CZero, COne>> >>
s_x == << <<CZero, COne>>, <<COne, CZero>> >>
s_y == << <<COne, CNeg(CI)>>, <<CI, COne>> >>
s_z == << <<COne, CZero>>, <<CZero, CNeg(COne)>> >>

\* Fault: the difference is taken the wrong way round.
ContrastSwapped(t, a, b) ==
  RDiv(RSub(Coinc(t, <<b>>), Coinc(t, <<a>>)),
       RAdd(Coinc(t, <<a>>), Coinc(t, <<b>>)))

\* (C(a) - C(b)) / (C(a) + C(b)); the caller has ruled out a zero sum.
Contrast(t, a, b) ==
  RDiv(RSub(Coinc(t, <<a>>), Coinc(t, <<b>>)),
       RAdd(Coinc(t, <<a>>), Coinc(t, <<b>>)))
ZeroSum(t, a, b) == RAdd(Coinc(t, <<a>>), Coinc(t, <<b>>)) = Zero

SingleStokes(t) ==
  [ TX |-> Contrast(t, "P", "M"),
    TY |-> Contrast(t, "R", "L"),
    TZ |-> Contrast(t, "H", "V") ]

\* rho = (1/2) * (T0 * s_0 + TX * s_x + TY * s_y + TZ * s_z)
SingleRho(T) ==
  MScale(CReal(Half),
         MAdd(MAdd(MAdd(MScale(COne, s_0), MScale(CReal(T.TX), s_x)),
                   MScale(CReal(T.TY), s_y)),
              MScale(CReal(T.TZ), s_z)))

SingleQubit_calc_results(t) ==
  IF ZeroSum(t, "P", "M") \/ ZeroSum(t, "R", "L") \/ ZeroSum(t, "H", "V")
    THEN Raised("ZeroDivisionError")
    ELSE Results(SingleRho(SingleStokes(t)))

VARIABLES
  variant,     \* which script / collector class runs
  n_samples,   \* collector.n_samples
  wait_time,   \* collector.wait_time, in ticks
  hw,          \* what the hardware object offers (see HwKinds)
  pc,          \* position of the main thread
  connected,   \* quEDU_Logic.connected
  collector,   \* quEDU_Logic.collector is not None
  registered,  \* channels with a data callback registered
  idx,         \* Settings of positions already finished by run()
  k,           \* samples already taken for the current Setting
  ai,          \* index into AppendOrder / ClearOrder / Targets of the step
  current,     \* the latch: slot -> Sample or None (_current_*)
  data,        \* Setting -> series name -> sequence of Samples
  win,         \* current detection window of the event source
  sent,        \* channels that delivered a Sample in the current window
  done,        \* _move_motors_to_targets: motor -> settled flag
  elapsed,     \* _move_motors_to_targets: time.time() - start, in ticks
  hwTarget,    \* driver: motor -> target position it was last sent
  warned,      \* Settings for which "Some motors timed out" was warned
  ret,         \* what the last _move_motors_to_targets call returned
  pos_to_coinc,\* calc_results: position -> average read from the CSV file
  freq,        \* DoubleQubit.calc_results: key -> normalised frequency
  results,     \* what calc_results returned, or the exception it raised
  conv,        \* _angle_to_steps: its argument and result; deg of Step 3
  final,       \* _move_motors_to_targets, Step 3: the position last read
  early,       \* history: slots whose Sample was published before the move
               \* for the current Setting returned
  inPlace      \* history: during this call of _move_motors_to_targets every
               \* motor was within tolerance of its target whenever observed

vars == <<variant, n_samples, wait_time, hw, pc, connected, collector,
          registered, idx, k, ai, current, data, win, sent, done, elapsed,
          hwTarget, warned, ret, inPlace, pos_to_coinc, freq, results,
          conv, final, early>>

config == <<variant, n_samples, wait_time, hw>>
latch == <<current>>
source == <<win, sent>>
mover == <<done, elapsed, inPlace, final>>
driver == <<hwTarget>>
analysis == <<pos_to_coinc, freq, results>>
conversion == <<conv>>
history == <<early>>

\* Fault: the loop walks the positions from the last to the first.
CurrentPositionReversed == positions(variant)[RunLen(variant) - idx]

CurrentPosition == positions(variant)[idx + 1]
CurrentTargets == Targets(variant, CurrentPosition)
AllDone == \A m \in DOMAIN done : done[m]
WithinTolerance(p, target) == Abs(p - target) <= TOLERANCE

\* -------------------------------------------------------------------- Init
\* wait_time values tried for the motor synchroniser alone: a few ticks
\* around zero, and the whole seconds -1, 0, 1 that --wait_time parses.
WaitTimes ==
  ((-1)..MaxWait) \cup {TICKS_PER_SECOND * sec : sec \in {-1, 0, 1}}

\* The state after __main__ has built LogicInstance (quEDU_Logic.__init__)
\* and before connect_device; the collector's fields are as its __init__
\* sets them.
InitWith(v, n, w, h) ==
  /\ variant = v
  /\ n_samples = n
  /\ wait_time = w
  /\ hw = h
  /\ pc = "connect"
  /\ connected = FALSE
  /\ collector = FALSE
  /\ registered = {}
  /\ idx = 0
  /\ k = 0
  /\ ai = 1
  /\ current = [s \in Slots(v) |-> None]
  /\ data = [q \in RunPositions(v) |-> [s \in Slots(v) |-> << >>]]
  /\ win = 1
  /\ sent = {}
  /\ done = [m \in Motors(v) |-> FALSE]
  /\ elapsed = 0
  /\ hwTarget = << >>
  /\ warned = {}
  /\ ret = NotCalled
  /\ inPlace = FALSE
  /\ pos_to_coinc = << >>
  /\ freq = << >>
  /\ results = NotCalled
  /\ conv = NotCalled

TheEDDriver == [setIdx |-> TRUE, setGeneric |-> FALSE, get |-> TRUE]

Init ==
  \E v \in Variants, n \in 1..MaxSamples :
    \/ /\ IsTomography(v)
       /\ \E w \in {0, POLL_SLEEP}, h \in HwKinds : InitWith(v, n, w, h)
       /\ final = NotFollowed
       /\ early = NotKept
    \/ /\ ~IsTomography(v)
       /\ InitWith(v, n, 0, TheEDDriver)
       /\ final = NotFollowed
       /\ early = NotKept

\* ------------------------------------------------------------ main thread
\* quEDU_Logic.connect_device: err is what hardware.connect_device returns.
\* Fault: the error code of the hardware is ignored.
ConnectsAnyway(err) == TRUE

\* if err == 0
Connects(err) == err = 0

connect_device(err) ==
  /\ pc = "connect"
  /\ IF Connects(err)
       THEN /\ connected' = TRUE
            /\ pc' = "assign"
       ELSE /\ connected' = connected
            /\ pc' = "failed"            \* RuntimeError
  /\ UNCHANGED <<history, conversion, analysis, config, collector, registered, idx, k, ai, latch, data,
                 source, mover, driver, warned, ret>>

\* __main__: the collector is built and stored in LogicInstance.collector.
assign_collector ==
  /\ pc = "assign"
  /\ collector' = TRUE
  /\ pc' = "set_callbacks"
  /\ UNCHANGED <<history, conversion, analysis, config, connected, registered, idx, k, ai, latch, data,
                 source, mover, driver, warned, ret>>

\* quEDU_Logic.set_data_channel_callbacks
set_data_channel_callbacks ==
  /\ pc = "set_callbacks"
  /\ IF collector
       THEN /\ registered' = ConfiguredChannels(variant)
            /\ pc' = "run"
       ELSE /\ registered' = registered
            /\ pc' = "failed"            \* RuntimeError
  /\ UNCHANGED <<history, conversion, analysis, config, connected, collector, idx, k, ai, latch, data,
                 source, mover, driver, warned, ret>>

\* Fault: the sample loop runs once too often.
MoreSamplesInclusive(kk) == kk <= n_samples

\* The test of the for-loop over range(self.n_samples) after kk samples.
MoreSamples(kk) == kk < n_samples

\* run(): the head of the loop over positions.  The tomography classes
\* enter measure_position, whose first statement is set_components; BASE
\* and HBT go straight to measure.
run ==
  /\ pc = "run"
  /\ IF idx < RunLen(variant)
       THEN IF IsTomography(variant)
              THEN pc' = "send"
              ELSE pc' = IF MoreSamples(k) THEN "wait" ELSE "complete"
       ELSE pc' = "complete"
  /\ ai' = 1
  /\ UNCHANGED <<history, conversion, analysis, config, connected, collector, registered, idx, k, latch,
                 data, source, mover, driver, warned, ret>>

\* The position the driver reports for a motor commanded to target and off
\* it by d steps: on it, at the edge of the tolerance, or beyond.
Reported(target, d) == target + d

\* What the driver is told for one entry of motor_targets (Step 1): both
\* setters receive int(steps).
SetTarget(t) == (t.motor :> t.steps) @@ hwTarget

\* _move_motors_to_targets, Step 1: one iteration of the loop sending the
\* targets; the motor stands d steps off the target it is given.  After the
\* last one Step 2 begins (start = time.time(), done all False).
send_target(d) ==
  /\ pc = "send"
  /\ LET t == CurrentTargets[ai] IN
       IF hw.setIdx \/ hw.setGeneric
         THEN /\ hwTarget' = SetTarget(t)
              /\ inPlace' = ((ai = 1 \/ inPlace)
                              /\ WithinTolerance(Reported(t.steps, d), t.steps))
              /\ IF ai < Len(CurrentTargets)
                   THEN /\ ai' = ai + 1
                        /\ pc' = "send"
                        /\ UNCHANGED <<done, elapsed>>
                   ELSE /\ ai' = 1
                        /\ pc' = "poll_loop"
                        /\ done' = [m \in DOMAIN done |-> FALSE]
                        /\ elapsed' = 0
         ELSE /\ pc' = "failed"          \* RuntimeError: cannot set motor
              /\ UNCHANGED <<hwTarget, ai, done, elapsed, inPlace>>
  /\ UNCHANGED <<history, conversion, analysis, config, connected, collector, registered, idx, k, latch,
                 data, source, warned, ret, final>>

\* Fault: the loop condition lets a round begin at the timeout itself.
KeepPollingInclusive == ~AllDone /\ elapsed <= wait_time

\* The condition of the polling while-loop.
KeepPolling == ~AllDone /\ elapsed < wait_time

\* _move_motors_to_targets, Step 2: the test of the while-loop.
poll_loop ==
  /\ pc = "poll_loop"
  /\ pc' = IF KeepPolling THEN "poll"
           ELSE IF final = NotFollowed THEN "report" ELSE "final"
  /\ ai' = 1
  /\ UNCHANGED <<history, conversion, analysis, config, connected, collector, registered, idx, k, latch,
                 data, source, mover, driver, warned, ret>>

\* Fault: a motor counts as settled two steps off its target.
SettlesLoosely(p, target) == hw.get /\ Abs(p - target) <= TOLERANCE + 1

\* Whether a poll of a motor that reports position p marks it done.  A
\* driver without get_motor<i>_current_position, or one whose query raises,
\* never does.
Settles(p, target) == hw.get /\ WithinTolerance(p, target)

\* _move_motors_to_targets, Step 2: one iteration of the for-loop over the
\* motors inside the while-loop; the driver reports a position d steps off
\* the target.
poll_motor(d) ==
  /\ pc = "poll"
  /\ LET t == CurrentTargets[ai]
         p == Reported(t.steps, d)
     IN
       /\ IF done[t.motor] \/ ~hw.get
            THEN UNCHANGED <<done, inPlace>>     \* continue / no query
            ELSE /\ done' = IF Settles(p, t.steps)
                              THEN [done EXCEPT ![t.motor] = TRUE]
                              ELSE done
                 /\ inPlace' = (inPlace /\ WithinTolerance(p, t.steps))
  /\ IF ai < Len(CurrentTargets)
       THEN /\ ai' = ai + 1
            /\ pc' = "poll"
       ELSE /\ ai' = 1
            /\ pc' = "poll_sleep"
  /\ UNCHANGED <<history, conversion, analysis, config, connected, collector, registered, idx, k, latch,
                 data, source, elapsed, driver, warned, ret, final>>

\* _move_motors_to_targets, Step 2: time.sleep(0.05) ending a polling round.
\* lag is what the round took beyond the sleep (the position queries, a
\* late wake-up).
poll_sleep(lag) ==
  /\ pc = "poll_sleep"
  /\ elapsed' = elapsed + POLL_SLEEP + lag
  /\ pc' = "poll_loop"
  /\ UNCHANGED <<history, conversion, analysis, config, connected, collector, registered, idx, k, ai,
                 latch, data, source, done, inPlace, driver, warned, ret, final>>

\* What _move_motors_to_targets hands back to its caller: the function has
\* no return statement.
ReturnValue == PyNone

\* Whether the call ends with warnings.warn("Some motors timed out").
Warns == ~AllDone

\* Fault: the timeout warning is raised as an exception.
WarningRaises == TRUE

\* warnings.warn under the default filters prints and returns; it does not
\* raise.
WarningIsFatal == FALSE

\* _move_motors_to_targets, Step 3: one iteration of the loop that reports
\* the final positions; the driver reports a position d steps off the
\* target, which is printed.  A driver without the query reports nothing.
report_motor(d) ==
  /\ pc = "final"
  /\ final' = IF hw.get THEN Reported(CurrentTargets[ai].steps, d) ELSE final
  /\ IF ai < Len(CurrentTargets)
       THEN /\ ai' = ai + 1
            /\ pc' = "final"
       ELSE /\ ai' = 1
            /\ pc' = "report"
  /\ UNCHANGED <<history, conversion, analysis, config, connected, collector, registered,
                 idx, k, latch, data, source, done, elapsed, inPlace, driver,
                 warned, ret>>

\* _move_motors_to_targets, the end of the call: the warning is raised if a
\* motor is not done, and control returns through set_components to the
\* sample loop of measure_position.
report_final ==
  /\ pc = "report"
  /\ final' = IF final = NotFollowed THEN final ELSE NoPosition
  /\ early' = IF early = NotKept THEN early
              ELSE {s \in Slots(variant) : current[s] # None}
  /\ warned' = IF Warns THEN warned \cup {CurrentPosition} ELSE warned
  /\ ret' = ReturnValue
  /\ done' = [m \in DOMAIN done |-> FALSE]
  /\ elapsed' = 0
  /\ inPlace' = FALSE
  /\ IF Warns /\ WarningIsFatal
       THEN /\ pc' = "failed"
            /\ UNCHANGED <<idx, k>>
       ELSE IF MoreSamples(k)
              THEN /\ pc' = "wait"
                   /\ UNCHANGED <<idx, k>>
              ELSE /\ pc' = "run"
                   /\ idx' = idx + 1
                   /\ k' = 0
  /\ UNCHANGED <<conversion, analysis, config, connected, collector, registered, ai, latch, data,
                 source, driver>>

\* Fault: the wait ends as soon as any awaited slot is filled.
LatchReadyAny == \E s \in WaitSlots(variant) : current[s] # None

\* measure / measure_position: the while-loop that sleeps until every
\* awaited slot is not None.
LatchReady == \A s \in WaitSlots(variant) : current[s] # None

wait_samples ==
  /\ pc = "wait"
  /\ LatchReady
  /\ pc' = "append"
  /\ ai' = 1
  /\ UNCHANGED <<history, conversion, analysis, config, connected, collector, registered, idx, k, latch,
                 data, source, mover, driver, warned, ret>>

\* measure / measure_position: one self.data[pos_name][s].append(...)
append_sample ==
  /\ pc = "append"
  /\ LET s == AppendOrder(variant)[ai] IN
       data' = [data EXCEPT ![CurrentPosition][s] = Append(@, current[s])]
  /\ IF ai < Len(AppendOrder(variant))
       THEN /\ ai' = ai + 1
            /\ pc' = "append"
       ELSE /\ ai' = 1
            /\ pc' = "clear"
  /\ UNCHANGED <<history, conversion, analysis, config, connected, collector, registered, idx, k, latch,
                 source, mover, driver, warned, ret>>

\* measure / measure_position: one self._current_<s> = None
clear_slot ==
  /\ pc = "clear"
  /\ LET s == ClearOrder(variant)[ai] IN
       /\ current' = [current EXCEPT ![s] = None]
       /\ early' = IF early = NotKept THEN early ELSE early \ {s}
  /\ IF ai < Len(ClearOrder(variant))
       THEN /\ ai' = ai + 1
            /\ pc' = "clear"
       ELSE /\ ai' = 1
            /\ pc' = "sleep"
  /\ UNCHANGED <<conversion, analysis, config, connected, collector, registered, idx, k, data,
                 source, mover, driver, warned, ret>>

\* measure / measure_position: the time.sleep ending one sample, and the
\* step of the enclosing for-loop over range(n_samples).
sample_sleep ==
  /\ pc = "sleep"
  /\ IF MoreSamples(k + 1)
       THEN /\ k' = k + 1
            /\ pc' = "wait"
            /\ idx' = idx
       ELSE /\ k' = 0
            /\ idx' = idx + 1
            /\ pc' = "run"
  /\ UNCHANGED <<history, conversion, analysis, config, connected, collector, registered, ai, latch, data,
                 source, mover, driver, warned, ret>>

\* ---------------------------------------------------------------- hardware
\* Channels the event source may name in a notification: the configured
\* ones and one identifier no script configures.
NotifiedChannels(v) == ConfiguredChannels(v) \cup {11}
Counts == {-1, 0, 1}

\* The slot data_callback assigns for a channel (its if/elif chain).
CallbackSlot(channel) == ChannelSlot(variant)[channel]

\* Fault: the count of the notification is not looked at.
DiscardsUnconfiguredOnly(channel, count) ==
  \/ ~collector
  \/ channel \notin ConfiguredChannels(variant)

\* Fault: the early return also drops a count of 1.
DiscardsSingles(channel, count) ==
  \/ ~collector
  \/ count < 2
  \/ channel \notin ConfiguredChannels(variant)

\* Whether data_callback leaves the latch alone: the early return, or no
\* branch of the if/elif chain matches.
Discards(channel, count) ==
  \/ ~collector
  \/ count < 1
  \/ channel \notin ConfiguredChannels(variant)

\* Fault: the callback keeps a value that is already waiting in the slot.
PublishedKeepFirst(channel, v) ==
  IF current[CallbackSlot(channel)] = None
    THEN [current EXCEPT ![CallbackSlot(channel)] = v]
    ELSE current

\* The latch after data_callback stores data[0], the Sample v.
Published(channel, v) == [current EXCEPT ![CallbackSlot(channel)] = v]

\* The event source delivers one notification: data_callback runs.  A
\* channel delivers at most one Sample per detection window.
data_callback(channel, count) ==
  /\ registered # {}
  /\ IF Discards(channel, count)
       THEN UNCHANGED <<latch, sent, early>>
       ELSE /\ channel \notin sent
            /\ sent' = sent \cup {channel}
            /\ current' = Published(channel, Sample(channel, win))
            /\ early' = IF early = NotKept THEN early
                        ELSE early \ {CallbackSlot(channel)}
  /\ UNCHANGED <<conversion, analysis, config, pc, connected, collector, registered, idx, k, ai,
                 data, win, mover, driver, warned, ret>>

\* The event source moves on to the next detection window.
NextWindow ==
  /\ registered # {}
  /\ sent # {}
  /\ win < MaxWindow
  /\ win' = win + 1
  /\ sent' = {}
  /\ UNCHANGED <<history, conversion, analysis, config, pc, connected, collector, registered, idx, k, ai,
                 latch, data, mover, driver, warned, ret>>

Next ==
  \/ \E err \in {0, 1} : connect_device(err)
  \/ assign_collector
  \/ set_data_channel_callbacks
  \/ run
  \/ \E d \in 0..MaxOff : send_target(d)
  \/ poll_loop
  \/ \E d \in 0..MaxOff : poll_motor(d)
  \/ \E lag \in 0..MaxLag : poll_sleep(lag)
  \/ report_final
  \/ wait_samples
  \/ append_sample
  \/ clear_slot
  \/ sample_sleep
  \/ \E channel \in NotifiedChannels(variant), count \in Counts :
       data_callback(channel, count)
  \/ NextWindow

Spec == Init /\ [][Next]_vars

\* The motor synchroniser on its own: the first call of
\* _move_motors_to_targets of a tomography run, over all the wait_time
\* values and drivers, with the event source silent.
InitMove ==
  \E v \in {"SingleQubit", "DoubleQubit"}, w \in WaitTimes, h \in HwKinds :
    /\ InitWith(v, 1, w, h)
    /\ final = NoPosition
    /\ early = NotKept

NextMove ==
  \/ connect_device(0)
  \/ assign_collector
  \/ set_data_channel_callbacks
  \/ run
  \/ \E d \in 0..MaxOff : send_target(d)
  \/ poll_loop
  \/ \E d \in 0..MaxOff : poll_motor(d)
  \/ \E lag \in 0..MaxLag : poll_sleep(lag)
  \/ \E d \in 0..MaxOff : report_motor(d)
  \/ report_final

SpecMove == InitMove /\ [][NextMove]_vars

\* The online tomography run with the history early kept: one Sample per
\* Setting, a driver with setter and position query, a timeout of one
\* polling round.
InitLatch ==
  \E v \in {"SingleQubit", "DoubleQubit"} :
    /\ InitWith(v, 1, POLL_SLEEP, TheEDDriver)
    /\ final = NotFollowed
    /\ early = {}

SpecLatch == InitLatch /\ [][Next]_vars

\* The online run with an event source that never stops: the detection
\* windows follow one another without end and are not told apart.
NextWindowLive ==
  /\ registered # {}
  /\ sent # {}
  /\ win' = win
  /\ sent' = {}
  /\ UNCHANGED <<history, conversion, analysis, config, pc, connected, collector,
                 registered, idx, k, ai, latch, data, mover, driver, warned, ret>>

\* The statements of the main thread, from connect_device to the end of
\* run().
MainThread ==
  \/ \E err \in {0, 1} : connect_device(err)
  \/ assign_collector
  \/ set_data_channel_callbacks
  \/ run
  \/ \E d \in 0..MaxOff : send_target(d)
  \/ poll_loop
  \/ \E d \in 0..MaxOff : poll_motor(d)
  \/ \E lag \in 0..MaxLag : poll_sleep(lag)
  \/ report_final
  \/ wait_samples
  \/ append_sample
  \/ clear_slot
  \/ sample_sleep

\* The channels whose slot the wait loop of measure / measure_position
\* tests.
RequiredChannels(v) ==
  {c \in ConfiguredChannels(v) : ChannelSlot(v)[c] \in WaitSlots(v)}
AnyChannel == UNION {ConfiguredChannels(v) : v \in Variants}

\* data_callback stores a Sample of channel c.
Publish(c) ==
  /\ c \in RequiredChannels(variant)
  /\ \E count \in Counts : ~Discards(c, count) /\ data_callback(c, count)

InitLive ==
  \E v \in Variants :
    /\ \/ IsTomography(v) /\ \E w \in {0, POLL_SLEEP}, h \in HwKinds : InitWith(v, 1, w, h)
       \/ ~IsTomography(v) /\ \E n \in 1..MaxSamples : InitWith(v, n, 0, TheEDDriver)
    /\ final = NotFollowed
    /\ early = NotKept

NextLive ==
  \/ MainThread
  \/ \E channel \in NotifiedChannels(variant), count \in Counts :
       data_callback(channel, count)
  \/ NextWindowLive

\* Every statement of the main thread and every driver call returns; the
\* event source goes from window to window and in each of them notifies
\* every required channel with a Sample.
FairLive ==
  /\ WF_vars(MainThread)
  /\ WF_vars(NextWindowLive)
  /\ \A c \in AnyChannel : WF_vars(Publish(c))

SpecLive == InitLive /\ [][NextLive]_vars /\ FairLive

\* set_components on its own: measure_position has just been entered for
\* any one Setting of positions, with the driver still holding the targets
\* of the Setting before it, and the targets are sent.
TargetsSent(v, q) ==
  [m \in {Targets(v, q)[j].motor : j \in 1..Len(Targets(v, q))} |->
     LET j == CHOOSE i \in 1..Len(Targets(v, q)) : Targets(v, q)[i].motor = m
     IN  Targets(v, q)[j].steps]

InitSet ==
  \E v \in {"SingleQubit", "DoubleQubit"}, h \in HwKinds :
    \E i \in 1..Len(positions(v)) :
      /\ variant = v
      /\ n_samples = 1
      /\ wait_time = 0
      /\ hw = h
      /\ pc = "send"
      /\ connected = TRUE
      /\ collector = TRUE
      /\ registered = ConfiguredChannels(v)
      /\ idx = i - 1
      /\ k = 0
      /\ ai = 1
      /\ current = [s \in Slots(v) |-> None]
      /\ data = [q \in RunPositions(v) |-> [s \in Slots(v) |-> << >>]]
      /\ win = 1
      /\ sent = {}
      /\ done = [m \in Motors(v) |-> FALSE]
      /\ elapsed = 0
      /\ hwTarget = IF i = 1 \/ ~(h.setIdx \/ h.setGeneric) THEN << >>
                    ELSE TargetsSent(v, positions(v)[i - 1])
      /\ warned = {}
      /\ ret = IF i = 1 THEN NotCalled ELSE PyNone
      /\ inPlace = FALSE
      /\ final = NotFollowed
      /\ early = NotKept
      /\ pos_to_coinc = << >>
      /\ freq = << >>
      /\ results = NotCalled
      /\ conv = NotCalled

NextSet == \E d \in 0..MaxOff : send_target(d)

SpecSet == InitSet /\ [][NextSet]_vars

\* The conversions on their own: a whole angle is converted to steps, the
\* steps are converted to degrees as Step 3 does with a position, and the
\* degrees are converted to steps again.
InitConv ==
  \E a \in 0..MaxAngle :
    /\ variant = "SingleQubit"
    /\ n_samples = 1
    /\ wait_time = 0
    /\ hw = TheEDDriver
    /\ pc = "to_steps"
    /\ connected = FALSE
    /\ collector = TRUE
    /\ registered = {}
    /\ idx = 0
    /\ k = 0
    /\ ai = 1
    /\ current = [s \in Slots("SingleQubit") |-> None]
    /\ data = [q \in RunPositions("SingleQubit") |->
                 [s \in Slots("SingleQubit") |-> << >>]]
    /\ win = 1
    /\ sent = {}
    /\ done = [m \in Motors("SingleQubit") |-> FALSE]
    /\ elapsed = 0
    /\ hwTarget = << >>
    /\ warned = {}
    /\ ret = NotCalled
    /\ inPlace = FALSE
    /\ final = NotFollowed
    /\ early = NotKept
    /\ pos_to_coinc = << >>
    /\ freq = << >>
    /\ results = NotCalled
    /\ conv = [angle |-> Float(a)]

Unconverted == <<history, analysis, config, connected, collector, registered, idx, k, ai,
                 latch, data, source, mover, driver, warned, ret>>

\* steps = self._angle_to_steps(angle)
to_steps ==
  /\ pc = "to_steps"
  /\ conv' = [angle |-> conv.angle, steps |-> angle_to_steps_float(conv.angle)]
  /\ pc' = "to_deg"
  /\ UNCHANGED Unconverted

\* deg = steps / DEG_TO_STEP
to_deg ==
  /\ pc = "to_deg"
  /\ conv' = [angle |-> conv.angle, steps |-> conv.steps,
              deg |-> steps_to_deg(conv.steps)]
  /\ pc' = "again"
  /\ UNCHANGED Unconverted

\* again = self._angle_to_steps(deg)
to_steps_again ==
  /\ pc = "again"
  /\ conv' = [angle |-> conv.angle, steps |-> conv.steps, deg |-> conv.deg,
              again |-> angle_to_steps_float(conv.deg)]
  /\ pc' = "converted"
  /\ UNCHANGED Unconverted

NextConv == to_steps \/ to_deg \/ to_steps_again

SpecConv == InitConv /\ [][NextConv]_vars

\* ----------------------------------------------------- offline analysis
\* __main__ without --online: no connection, no callbacks, no run(); the
\* collector is built and calc_results is applied to an existing CSV file.
\* The file is given by the table of averages read from it.  Rows may be
\* absent; averages are whole numbers >= 0 (NaN and negative entries of a
\* hand-made file are not tried).
\*
\* Two-qubit tables: every row holds the same average b, except that the
\* rows of one group g hold the values of pat (with the rows in absent left
\* out) and that the rows of one more group z, if z # 0, hold 0.
DoubleTable(b, g, pat, absent, z) ==
  LET all == {groups[h][i] : h \in 1..Len(groups), i \in 1..4}
      val(o) ==
        IF z # 0 /\ \E i \in 1..4 : groups[z][i] = o THEN 0
        ELSE IF \E i \in 1..4 : groups[g][i] = o
               THEN pat[CHOOSE i \in 1..4 : groups[g][i] = o]
               ELSE b
  IN  [o \in all \ {groups[g][i] : i \in absent} |-> Float(val(o))]

AbsentChoices == {{}, {1}, 1..4}

\* The tables tried for a script.  Single-qubit tables: any averages in
\* 0..MaxLevel, the H or the V row possibly absent.
Tables(v) ==
  IF v = "DoubleQubit"
    THEN {DoubleTable(b, g, pat, absent, z) :
            b \in 1..MaxLevel, g \in 1..Len(groups),
            pat \in [1..4 -> 0..MaxCount],
            absent \in AbsentChoices, z \in 0..Len(groups)}
         \cup {DoubleTable(b, 1, [i \in 1..4 |-> b], {}, 0) : b \in 1..MaxLevel}
    ELSE {[o \in {<<l>> : l \in DOMAIN c} \ gone |-> Float(c[o[1]])] :
            c \in [{"H", "V", "P", "M", "R", "L"} -> 0..MaxLevel],
            gone \in {{}} \cup {{<<l>>} : l \in {"H", "V"}}}

InitOffline(v, t) ==
  /\ variant = v
  /\ n_samples = 1
  /\ wait_time = 0
  /\ hw = TheEDDriver
  /\ pc = "calc"
  /\ connected = FALSE
  /\ collector = TRUE
  /\ registered = {}
  /\ idx = 0
  /\ k = 0
  /\ ai = 1
  /\ current = [s \in Slots(v) |-> None]
  /\ data = [q \in RunPositions(v) |-> [s \in Slots(v) |-> << >>]]
  /\ win = 1
  /\ sent = {}
  /\ done = [m \in Motors(v) |-> FALSE]
  /\ elapsed = 0
  /\ hwTarget = << >>
  /\ warned = {}
  /\ ret = NotCalled
  /\ inPlace = FALSE
  /\ final = NotFollowed
  /\ early = NotKept
  /\ pos_to_coinc = t
  /\ freq = << >>
  /\ results = NotCalled
  /\ conv = NotCalled

InitCalc ==
  \E v \in {"DoubleQubit", "SingleQubit"} :
    \E t \in Tables(v) : InitOffline(v, t)

\* calc_results(filename), as a whole: it has no state but its arguments.
\* warned collects the positions for which warnings.warn was called.
calc_results ==
  /\ pc = "calc"
  /\ IF variant = "DoubleQubit"
       THEN /\ warned' = warned \cup ZeroWarnings(pos_to_coinc)
            /\ freq' = FinalFrequencies(pos_to_coinc)
            /\ results' = DoubleQubit_calc_results(pos_to_coinc)
       ELSE /\ warned' = warned
            /\ freq' = freq
            /\ results' = SingleQubit_calc_results(pos_to_coinc)
  /\ pc' = IF results'.kind = "raised" THEN "failed" ELSE "printed"
  /\ UNCHANGED <<history, conversion, config, connected, collector, registered, idx, k,
                 ai, latch, data, source, mover, driver, ret, pos_to_coinc>>

NextCalc == calc_results

SpecCalc == InitCalc /\ [][NextCalc]_vars

\* ============================================================== properties
Entries == {<<q, c, i>> \in RunPositions(variant) \X Slots(variant) \X (1..(MaxSamples + 1)) :
              i <= Len(data[q][c])}
Required == WaitSlots(variant)
PositionIndex(q) == CHOOSE j \in 1..RunLen(variant) : positions(variant)[j] = q
Moving == pc \in {"send", "poll_loop", "poll", "poll_sleep", "final", "report"}
Acquiring == pc \in {"wait", "append", "clear", "sleep"}

\* C1: no double consumption -- a Sample is appended to a series at most
\* once: no two entries of the series of one channel (within a Setting or
\* across Settings) are the same Sample.
C1_NoDoubleConsumption ==
  \A e1 \in Entries, e2 \in Entries :
    (e1[2] = e2[2] /\ e1 # e2) =>
      data[e1[1]][e1[2]][e1[3]] # data[e2[1]][e2[2]][e2[3]]

\* C2: the values appended for the required channels in one acquisition
\* step all belong to the same detection window.
C2_SameWindowPerStep ==
  \A q \in RunPositions(variant), c1 \in Required, c2 \in Required :
    \A i \in 1..Min(Len(data[q][c1]), Len(data[q][c2])) :
      data[q][c1][i].win = data[q][c2][i].win

\* C4: last value wins -- a slot is empty or holds exactly the newest Sample
\* delivered for its channel: once the channel has delivered in the current
\* window the slot never still holds an older Sample (v1 is overwritten by
\* v2, not kept or queued), and a take that appends from the slot of such a
\* channel appends that newest Sample.
C4_SlotHoldsNewest ==
  \A ch \in ConfiguredChannels(variant) :
    LET c == ChannelSlot(variant)[ch] IN
      \/ current[c] = None
      \/ /\ current[c].ch = ch
         /\ current[c].win \in 1..win
         /\ ch \in sent => current[c].win = win

C4_TakeAppendsNewest ==
  data' # data =>
    \A q \in RunPositions(variant), ch \in ConfiguredChannels(variant) :
      LET c == ChannelSlot(variant)[ch] IN
        (Len(data'[q][c]) > Len(data[q][c]) /\ ch \in sent) =>
          data'[q][c][Len(data'[q][c])] = Sample(ch, win)

C4_LastValueWins == []C4_SlotHoldsNewest /\ [][C4_TakeAppendsNewest]_vars

\* a slot was overwritten (v2 replaced an unread v1 of an earlier window)
\* and a take has then appended v2
C4_Witness ==
  \E q \in RunPositions(variant), ch \in ConfiguredChannels(variant) :
    LET c == ChannelSlot(variant)[ch] IN
      /\ c \in Required
      /\ Len(data[q][c]) = 1
      /\ data[q][c][1].win = 2
      /\ idx = 0

\* C5: once acquisition for a Setting is complete every required series of
\* it has exactly n_samples entries, and outside the append statements of a
\* step all required series of a Setting are equally long.
C5_SeriesLengths ==
  \A j \in 1..RunLen(variant) :
    LET q == positions(variant)[j] IN
      /\ j <= idx => \A c \in Required : Len(data[q][c]) = n_samples
      /\ pc # "append" =>
           \A c1 \in Required, c2 \in Required :
             Len(data[q][c1]) = Len(data[q][c2])

C5_Witness ==
  /\ variant = "DoubleQubit"
  /\ n_samples = MaxSamples
  /\ idx = 1
  /\ \A c \in Required : Len(data[positions(variant)[1]][c]) = n_samples

\* C6: every entry of a series is a Sample that data_callback delivered for
\* the channel of that series: never None, never another channel's Sample.
C6_AppendedWasPublished ==
  \A q \in RunPositions(variant), c \in Slots(variant) :
    \A i \in 1..Len(data[q][c]) :
      LET x == data[q][c][i] IN
        /\ x # None
        /\ x.ch \in ConfiguredChannels(variant)
        /\ ChannelSlot(variant)[x.ch] = c
        /\ x.win \in 1..win

C6_Witness ==
  /\ variant = "HBT"
  /\ pc = "complete"
  /\ \A c \in Required : Len(data[<<"HBT">>][c]) = MaxSamples

\* The state of run() in the terms of the sequencer's state machine.  The
\* head of the loop over positions counts as NotStarted before the first
\* Setting and as the end of Acquiring after one.
Phase ==
  CASE pc \in {"connect", "assign", "set_callbacks"} -> "NotStarted"
    [] pc = "run"      -> IF idx = 0 THEN "NotStarted" ELSE "Acquiring"
    [] Moving          -> "MovingActuators"
    [] Acquiring       -> "Acquiring"
    [] pc = "complete" -> "Complete"
    [] pc = "failed"   -> "Aborted"

PhaseStep(a, b) ==
  \/ a = b
  \/ a = "NotStarted" /\ b \in {"MovingActuators", "Aborted"}
  \/ a = "NotStarted" /\ b = "Acquiring" /\ ~IsTomography(variant)
  \/ a = "MovingActuators" /\ b \in {"Acquiring", "Aborted"}
  \/ a = "Acquiring" /\ b \in {"MovingActuators", "Complete"}

TargetOf(j, m) ==
  LET T == Targets(variant, positions(variant)[j])
      i == CHOOSE i \in 1..Len(T) : T[i].motor = m
  IN  T[i].steps

\* The Setting run() is at, or has last finished.
SettingAt == IF pc \in {"run", "complete"} THEN idx ELSE idx + 1

C3_Order ==
  /\ idx \in 0..RunLen(variant)
  /\ pc = "complete" => idx = RunLen(variant)
  /\ \A j \in 1..RunLen(variant) :
       LET q == positions(variant)[j] IN
         /\ j <= idx => \A c \in Required : Len(data[q][c]) = n_samples
         /\ j > idx + 1 => \A c \in Slots(variant) : data[q][c] = << >>
         /\ (j = idx + 1 /\ ~Acquiring) =>
              \A c \in Slots(variant) : data[q][c] = << >>
  /\ (Acquiring /\ IsTomography(variant)) =>
       /\ ret # NotCalled
       /\ DOMAIN hwTarget = Motors(variant)
  /\ \A m \in DOMAIN hwTarget :
       \/ hwTarget[m] = TargetOf(SettingAt, m)
       \/ pc = "send" /\ idx > 0 /\ hwTarget[m] = TargetOf(idx, m)

C3_Steps ==
  /\ pc' # pc => PhaseStep(Phase, Phase')
  /\ idx' \in {idx, idx + 1}
  /\ idx' = idx + 1 => (pc \in {"sleep", "report"} /\ pc' = "run")
  /\ data' # data =>
       /\ pc = "append"
       /\ \A q \in RunPositions(variant), c \in Slots(variant) :
            data'[q][c] # data[q][c] =>
              /\ q = CurrentPosition
              /\ SubSeq(data'[q][c], 1, Len(data[q][c])) = data[q][c]

\* C3: run() goes through the Settings in the declared order, each once;
\* the actuator move of a Setting has returned before its first sample is
\* appended, every target in force is the current Setting's (or, while the
\* targets are being sent, still the previous one's), a Setting has all its
\* n_samples before the next is begun, and the phases follow NotStarted,
\* (MovingActuators, Acquiring) per Setting, Complete.
C3_Sequencing == []C3_Order /\ [][C3_Steps]_vars

C3_Witness ==
  /\ variant = "DoubleQubit"
  /\ pc = "complete"
  /\ idx = MaxSettings
  /\ \A q \in RunPositions(variant), c \in Required : Len(data[q][c]) = n_samples

\* C7 as stated: a call that ends with a motor not settled ends exactly
\* when the timeout elapses.
C7_ReturnsExactlyAtTimeout ==
  (pc = "report" /\ ~AllDone /\ wait_time > 0) => elapsed = wait_time

\* C7 (amended): a call in which a motor never settles ends at the first
\* test of the loop condition at or after the timeout: never before the
\* timeout, no polling round is begun once the timeout has elapsed, and the
\* return is late by less than one polling round.
C7_ReturnsAtFirstCheckAfterTimeout ==
  /\ (pc = "report" /\ ~AllDone) => elapsed >= wait_time
  /\ pc \in {"poll", "poll_sleep"} => elapsed < wait_time
  /\ (pc = "report" /\ ~AllDone /\ wait_time > 0) =>
       elapsed < wait_time + POLL_SLEEP + MaxLag

C7_Witness ==
  /\ pc = "report"
  /\ ~AllDone
  /\ hw.get
  /\ wait_time = TICKS_PER_SECOND
  /\ elapsed > wait_time

\* C8: with every motor in place from the start the call ends
\* with all motors settled, before the timeout, whatever the timeout.
C8_InPlaceSettlesForAnyTimeout ==
  (pc = "report" /\ inPlace /\ hw.get) => (AllDone /\ elapsed < wait_time)

\* The same restricted to the timeouts the documentation allows: with
\* every motor in place from the start, a driver that answers the position
\* query and a timeout greater than zero, the call
\* ends with all motors settled and no warning after exactly one polling
\* round; that is before the timeout for every timeout of a second or more.
C8_InPlaceSettlesInOneRound ==
  (pc = "report" /\ inPlace /\ hw.get /\ wait_time > 0) =>
    /\ AllDone
    /\ ~Warns
    /\ elapsed \in POLL_SLEEP..(POLL_SLEEP + MaxLag)
    /\ wait_time >= TICKS_PER_SECOND => elapsed < wait_time

C9_AfterWarning ==
  /\ pc = "failed" => warned = {}
  /\ \A q \in warned :
       PositionIndex(q) <= idx => \A c \in Required : Len(data[q][c]) = n_samples

C9_WarningStep ==
  (pc = "report" /\ pc' # pc /\ Warns) =>
    /\ pc' = "wait"
    /\ idx' = idx
    /\ CurrentPosition \in warned'
    /\ data' = data

\* C9: an actuator timeout is not fatal -- the call that times out warns and
\* returns into the acquisition of the same Setting, no run fails after a
\* warning, and a Setting finished after a warning has its full n_samples.
C9_TimeoutNonFatal == []C9_AfterWarning /\ [][C9_WarningStep]_vars

\* every Setting timed out, and the run still completed with full series
C9_Witness ==
  /\ pc = "complete"
  /\ wait_time > 0
  /\ idx = MaxSettings
  /\ warned = RunPositions(variant)
  /\ \A q \in warned, c \in Required : Len(data[q][c]) = n_samples

\* C10: _move_motors_to_targets returns the per-motor settled flags.
C10_ReturnsSettledFlags ==
  [][(pc = "report" /\ pc' # pc) => ret' = Flags(done)]_vars

\* The raw total of a position and of a group in the table read from the
\* file, a missing row counting as 0.
RawTotal(o) == IF o \in DOMAIN pos_to_coinc THEN pos_to_coinc[o] ELSE Zero
GroupTotal(g) ==
  RAdd(RAdd(RawTotal(groups[g][1]), RawTotal(groups[g][2])),
       RAdd(RawTotal(groups[g][3]), RawTotal(groups[g][4])))
Analysed(v) == variant = v /\ pc \in {"printed", "failed"}
Returned == results.kind = "results"
NoZeroGroup == \A g \in 1..Len(groups) : GroupTotal(g) # Zero

\* C11: every group that calc_results normalises, whose raw totals are all
\* >= 0 with a sum > 0, gets frequencies raw total / group sum, each between
\* 0 and 1, that add up to 1; when calc_results returns, all 9 groups are
\* normalised.
C11_FrequenciesNormalised ==
  Analysed("DoubleQubit") =>
    /\ Returned => \A g \in 1..Len(groups), i \in 1..4 :
                     lower(groups[g][i]) \in DOMAIN freq
    /\ \A g \in 1..Len(groups) :
         ( /\ lower(groups[g][1]) \in DOMAIN freq
           /\ RLess(Zero, GroupTotal(g))
           /\ \A i \in 1..4 : ~RLess(RawTotal(groups[g][i]), Zero) ) =>
           /\ \A i \in 1..4 :
                LET x == freq[lower(groups[g][i])] IN
                  /\ RMul(x, GroupTotal(g)) = RawTotal(groups[g][i])
                  /\ ~RLess(x, Zero) /\ ~RLess(One, x)
           /\ RAdd(RAdd(freq[lower(groups[g][1])], freq[lower(groups[g][2])]),
                   RAdd(freq[lower(groups[g][3])], freq[lower(groups[g][4])])) = One

\* a returned analysis with a group split 1/3, 1/3, 1/3, 0
C11_Witness ==
  /\ Analysed("DoubleQubit")
  /\ Returned
  /\ \E g \in 1..Len(groups) :
       /\ freq[lower(groups[g][1])] = Third
       /\ freq[lower(groups[g][4])] = Zero

\* C12: when the raw totals of some group sum to zero, calc_results raises
\* ValueError and returns nothing, whatever the other groups hold.
C12_ZeroGroupIsFatal ==
  (Analysed("DoubleQubit") /\ ~NoZeroGroup) =>
    /\ pc = "failed"
    /\ results.kind = "raised"
    /\ results.error = "ValueError"

\* the zero group is not the first one and another group holds unequal
\* totals
C12_Witness ==
  /\ Analysed("DoubleQubit")
  /\ results.kind = "raised"
  /\ GroupTotal(1) # Zero
  /\ \E g \in 2..Len(groups) : GroupTotal(g) = Zero
  /\ \E g \in 1..Len(groups) :
       GroupTotal(g) # Zero /\ RawTotal(groups[g][1]) # RawTotal(groups[g][2])

\* C13: a zero raw total of a Setting whose group total is not zero only
\* warns: unless some group total is zero, calc_results returns rho with its
\* diagnostics, has warned for every zero Setting, and gives it frequency 0;
\* it raises only when some group total is zero.
C13_ZeroMemberOnlyWarns ==
  Analysed("DoubleQubit") =>
    /\ ~Returned => ~NoZeroGroup
    /\ NoZeroGroup =>
         /\ pc = "printed"
         /\ Returned
         /\ DOMAIN results = {"kind", "rho", "hermiticity2", "trace", "purity"}
         /\ \A g \in 1..Len(groups), i \in 1..4 :
              RawTotal(groups[g][i]) = Zero =>
                /\ groups[g][i] \in warned
                /\ freq[lower(groups[g][i])] = Zero

C13_Witness ==
  /\ Analysed("DoubleQubit")
  /\ Returned
  /\ NoZeroGroup
  /\ \E o \in warned : RawTotal(o) = Zero /\ freq[lower(o)] = Zero

\* The Pauli matrices.
sigma_0 == << <<COne, CZero>>, <<CZero, COne>> >>
sigma_x == << <<CZero, COne>>, <<COne, CZero>> >>
sigma_y == << <<CZero, CNeg(CI)>>, <<CI, CZero>> >>
sigma_z == << <<COne, CZero>>, <<CZero, CNeg(COne)>> >>

RawContrast(a, b) ==
  RDiv(RSub(RawTotal(<<a>>), RawTotal(<<b>>)), RAdd(RawTotal(<<a>>), RawTotal(<<b>>)))
SingleDefined ==
  /\ RAdd(RawTotal(<<"P">>), RawTotal(<<"M">>)) # Zero
  /\ RAdd(RawTotal(<<"R">>), RawTotal(<<"L">>)) # Zero
  /\ RAdd(RawTotal(<<"H">>), RawTotal(<<"V">>)) # Zero

\* (1/2)(I + TX sigma_x + TY sigma_y + TZ sigma_z)
BlochRho(TX, TY, TZ) ==
  MScale(CReal(Half),
         MAdd(MAdd(MAdd(sigma_0, MScale(CReal(TX), sigma_x)),
                   MScale(CReal(TY), sigma_y)),
              MScale(CReal(TZ), sigma_z)))

\* C14: for counts with nonzero P+M, R+L and H+V, SingleQubit.calc_results
\* returns (1/2)(I + TX sigma_x + TY sigma_y + TZ sigma_z) with
\* TX=(P-M)/(P+M), TY=(R-L)/(R+L), TZ=(H-V)/(H+V).
C14_SingleRhoIsBlochFormula ==
  (Analysed("SingleQubit") /\ SingleDefined) =>
    /\ Returned
    /\ results.rho = BlochRho(RawContrast("P", "M"), RawContrast("R", "L"),
                              RawContrast("H", "V"))

\* sigma_a (x) sigma_b weighted by the Stokes parameter named T<a><b>
PauliOf == [a \in {"0", "X", "Y", "Z"} |->
              CASE a = "0" -> sigma_0 [] a = "X" -> sigma_x
                [] a = "Y" -> sigma_y [] a = "Z" -> sigma_z]
PauliTerm(T, a, b) == MScale(CReal(T["T" \o a \o b]), Kron(PauliOf[a], PauliOf[b]))
PauliRow(T, a) ==
  MAdd(MAdd(MAdd(PauliTerm(T, a, "0"), PauliTerm(T, a, "X")),
            PauliTerm(T, a, "Y")), PauliTerm(T, a, "Z"))
\* (1/4) sum over a, b of T<a><b> sigma_a (x) sigma_b
PauliSum(T) ==
  MScale(CReal(Quarter),
         MAdd(MAdd(MAdd(PauliRow(T, "0"), PauliRow(T, "X")), PauliRow(T, "Y")),
              PauliRow(T, "Z")))

\* C15: the matrix DoubleQubit.calc_results returns is (1/4) times the sum
\* of the 16 tensor products of {I, sigma_x, sigma_y, sigma_z}, each
\* weighted by the Stokes parameter of that pair as calc_results computed it.
C15_DoubleRhoIsPauliSum ==
  (Analysed("DoubleQubit") /\ Returned) => results.rho = PauliSum(Stokes(freq))

\* the pure |H> pattern: V = 0 < H, P = M > 0, R = L > 0
PureH ==
  /\ RawTotal(<<"V">>) = Zero /\ RLess(Zero, RawTotal(<<"H">>))
  /\ RawTotal(<<"P">>) = RawTotal(<<"M">>) /\ RLess(Zero, RawTotal(<<"P">>))
  /\ RawTotal(<<"R">>) = RawTotal(<<"L">>) /\ RLess(Zero, RawTotal(<<"R">>))

\* C16: for a table of the pure |H> pattern SingleQubit.calc_results
\* returns rho = [[1,0],[0,0]] (TZ = 1, TX = TY = 0) with purity 1,
\* hermiticity defect 0 and trace 1.
C16_PureHReconstructed ==
  (Analysed("SingleQubit") /\ PureH) =>
    /\ Returned
    /\ SingleStokes(pos_to_coinc) = [TX |-> Zero, TY |-> Zero, TZ |-> One]
    /\ results.rho = << <<COne, CZero>>, <<CZero, CZero>> >>
    /\ results.purity = One
    /\ results.hermiticity2 = Zero
    /\ results.trace = COne

C16_Witness ==
  /\ Analysed("SingleQubit")
  /\ PureH
  /\ Returned
  /\ RawTotal(<<"H">>) = Float(MaxLevel)
  /\ RawTotal(<<"P">>) # RawTotal(<<"H">>)

Uniform ==
  /\ \A g \in 1..Len(groups), i \in 1..4 : RawTotal(groups[g][i]) = RawTotal(groups[1][1])
  /\ RLess(Zero, RawTotal(groups[1][1]))

\* C17: for a table in which all 36 Settings have the same positive raw
\* total DoubleQubit.calc_results returns rho = I/4 with trace 1,
\* hermiticity defect 0 and purity 1/4, every Stokes parameter but T00
\* being 0.
C17_UniformIsMaximallyMixed ==
  (Analysed("DoubleQubit") /\ Uniform) =>
    /\ Returned
    /\ \A n \in DOMAIN Stokes(freq) : n # "T00" => Stokes(freq)[n] = Zero
    /\ results.rho = MScale(CReal(Quarter), Kron(sigma_0, sigma_0))
    /\ results.trace = COne
    /\ results.hermiticity2 = Zero
    /\ results.purity = Quarter

C17_Witness ==
  /\ Analysed("DoubleQubit")
  /\ Uniform
  /\ Returned
  /\ RawTotal(groups[1][1]) = Float(MaxLevel)

C18_CallbackStep ==
  current' # current =>
    \A channel \in NotifiedChannels(variant), count \in Counts :
      data_callback(channel, count) =>
        /\ count >= 0
        /\ channel \in ConfiguredChannels(variant)
        /\ \A s \in Slots(variant) :
             current'[s] # current[s] => s = ChannelSlot(variant)[channel]

\* C18: data_callback leaves every slot as it is when the count is < 0 or
\* the channel is not a configured one; a notification changes at most the
\* slot of its own, configured, channel.
C18_CallbackDiscards == [][C18_CallbackStep]_vars

\* a notification has filled the slot of its channel and no other
C18_Witness ==
  /\ collector
  /\ \E ch \in ConfiguredChannels(variant) :
       /\ sent = {ch}
       /\ current[ChannelSlot(variant)[ch]] = Sample(ch, win)
       /\ \A s \in Slots(variant) \ {ChannelSlot(variant)[ch]} : current[s] = None

\* C19: the drain has no timeout and ends only on a publish -- the wait of
\* an acquisition step is left only when every required slot holds a Sample
\* published since the last take, one that no series holds yet; without
\* such a publish the loop neither appends nor moves on.
C19_WaitEndsOnlyOnNewPublish ==
  [][(pc = "wait" /\ pc' # pc) =>
       \A s \in WaitSlots(variant) :
         /\ current[s] # None
         /\ \A q \in RunPositions(variant) :
              \A i \in 1..Len(data[q][s]) : data[q][s][i] # current[s]]_vars

C20_AfterFailedConnect ==
  (pc = "failed" /\ ~connected) =>
    /\ registered = {}
    /\ hwTarget = << >>
    /\ \A q \in RunPositions(variant), c \in Slots(variant) : data[q][c] = << >>
    /\ \A s \in Slots(variant) : current[s] = None

C20_ConnectStep ==
  /\ \A err \in {0, 1} :
       (err # 0 /\ connect_device(err)) => (pc' = "failed" /\ ~connected')
  /\ (pc = "failed" /\ ~connected) => vars' = vars

\* C20: when the hardware connect returns a nonzero error, connect_device
\* raises and connected stays False; after that no callback is registered,
\* no motor target is sent, no slot is written and no sample is appended.
C20_ConnectFailureIsFatal == []C20_AfterFailedConnect /\ [][C20_ConnectStep]_vars

C20_Witness ==
  /\ variant = "DoubleQubit"
  /\ pc = "failed"
  /\ ~connected
  /\ win = 1

\* The Settings of DoubleQubit.positions and the members of a group, as sets.
PositionSet == {DoublePositions[i] : i \in 1..Len(DoublePositions)}
GroupMembers(g) == {groups[g][i] : i \in 1..Len(groups[g])}
\* The measurement basis a projection letter belongs to.
BasisOf == [l \in {"H", "V", "P", "M", "R", "L"} |->
              CASE l \in {"H", "V"} -> "Z" [] l \in {"P", "M"} -> "X"
                [] l \in {"R", "L"} -> "Y"]

\* C24: the 9 groups of DoubleQubit.calc_results partition the 36 Settings
\* of DoubleQubit.positions: every Setting is in exactly one group, every
\* group has exactly 4 members that share one basis per qubit, and no group
\* holds a label that is not a Setting; a returned analysis has one
\* frequency per Setting.
C24_GroupsPartitionPositions ==
  Analysed("DoubleQubit") =>
    /\ Len(groups) = 9
    /\ Len(DoublePositions) = 36 /\ Cardinality(PositionSet) = 36
    /\ \A q \in PositionSet :
         Cardinality({g \in 1..Len(groups) : q \in GroupMembers(g)}) = 1
    /\ \A g \in 1..Len(groups) :
         /\ Len(groups[g]) = 4 /\ Cardinality(GroupMembers(g)) = 4
         /\ GroupMembers(g) \subseteq PositionSet
         /\ \A a, b \in GroupMembers(g) :
              BasisOf[a[1]] = BasisOf[b[1]] /\ BasisOf[a[2]] = BasisOf[b[2]]
    /\ Returned => DOMAIN freq = {lower(q) : q \in PositionSet}

\* a returned analysis of a table in which some row of the last group is
\* the only zero
C24_Witness ==
  /\ Analysed("DoubleQubit")
  /\ Returned
  /\ Cardinality(DOMAIN freq) = 36
  /\ freq[lower(groups[9][4])] = Zero

\* C30: for every table with nonzero P+M, R+L and H+V the density matrix
\* SingleQubit.calc_results returns has trace exactly 1, whatever TX, TY
\* and TZ are.
C30_SingleTraceIsOne ==
  (Analysed("SingleQubit") /\ SingleDefined) =>
    (Returned /\ results.trace = COne)

\* The position of the main thread is inside set_components.
InSetComponents == pc \in {"send", "poll_loop"}
\* The motors of the components a script requires.
RequiredMotors == {MOTOR_MAP[c] : c \in required_components(variant)}
\* The entries of the targets dict sent so far in this call.
SentSoFar == IF pc = "send" THEN ai - 1 ELSE Len(CurrentTargets)

\* C21: every Setting of DoubleQubit.positions and SingleQubit.positions
\* resolves to a complete target assignment: its letters are keys of
\* projections, set_components has exactly one target for each motor of
\* required_components (4 distinct motors for two qubits, 2 for one), each
\* a step count in 0..4799, and sends each of them to the driver.
C21_SettingsResolve ==
  InSetComponents =>
    /\ \A i \in 1..Len(CurrentPosition) : CurrentPosition[i] \in DOMAIN projections
    /\ Len(CurrentTargets) = Cardinality(RequiredMotors)
    /\ Len(CurrentTargets) = IF variant = "DoubleQubit" THEN 4 ELSE 2
    /\ {CurrentTargets[j].motor : j \in 1..Len(CurrentTargets)} = RequiredMotors
    /\ \A j \in 1..Len(CurrentTargets) :
         /\ CurrentTargets[j].steps >= 0
         /\ CurrentTargets[j].steps < STEPS_PER_REV
    /\ \A j \in 1..SentSoFar :
         /\ CurrentTargets[j].motor \in DOMAIN hwTarget
         /\ hwTarget[CurrentTargets[j].motor] = CurrentTargets[j].steps

\* all four targets of the last Setting of DoubleQubit.positions are sent
C21_Witness ==
  /\ variant = "DoubleQubit"
  /\ pc = "poll_loop"
  /\ idx = Len(DoublePositions) - 1
  /\ DOMAIN hwTarget = RequiredMotors
  /\ hwTarget[MOTOR_MAP["Pol2"]] = angle_to_steps(135)

\* The whole angle a conversion started from.
WholeAngle == conv.angle[1]

\* C22: _angle_to_steps is deterministic and monotonic over the whole
\* angles 0..MaxAngle: the step count of an angle is the one whole number
\* nearest to angle * 4800/360, the same on every path that computes it,
\* and no smaller angle has a larger step count.
C22_MonotonicDeterministic ==
  (pc \in {"to_deg", "again", "converted"}) =>
    /\ 2 * Abs(conv.steps * FULL_TURN_DEG - WholeAngle * STEPS_PER_REV) < FULL_TURN_DEG
    /\ conv.steps = angle_to_steps(WholeAngle)
    /\ conv.steps = angle_to_steps_float(conv.angle)
    /\ \A a1 \in 0..WholeAngle :
         angle_to_steps_float(Float(a1)) <= conv.steps

\* a full turn has been converted
C22_Witness ==
  /\ pc = "to_deg"
  /\ conv.angle = Float(FULL_TURN_DEG)
  /\ conv.steps = STEPS_PER_REV

\* C23: for every whole angle 0..MaxAngle, the steps of the angle,
\* converted to degrees and to steps again, are within 1 step of the
\* steps of the angle.
C23_RoundTrip ==
  (pc = "converted") => Abs(conv.again - conv.steps) <= 1

\* 1 degree is 13 steps, 13 steps are 39/40 degree, and that is 13 steps
C23_Witness ==
  /\ pc = "converted"
  /\ conv.angle = Float(1)
  /\ conv.steps = 13
  /\ conv.deg = Rat(39, 40)
  /\ conv.again = 13

\* Step 2 or Step 3 of _move_motors_to_targets is being executed.
Polling == pc \in {"poll_loop", "poll", "poll_sleep", "final", "report"}

C25_AllSentBeforePolling ==
  /\ Polling =>
       \A j \in 1..Len(CurrentTargets) :
         /\ CurrentTargets[j].motor \in DOMAIN hwTarget
         /\ hwTarget[CurrentTargets[j].motor] = CurrentTargets[j].steps
  /\ (pc = "report") => (AllDone \/ elapsed >= wait_time)

C25_MoveStep ==
  /\ hwTarget' # hwTarget => pc = "send"
  /\ done' # done =>
       \/ \A m \in DOMAIN done : ~done'[m]        \* done = {idx: False ...}
       \/ /\ pc = "poll"
          /\ \A m \in DOMAIN done :
               done'[m] # done[m] => m = CurrentTargets[ai].motor
          /\ \E d \in 0..MaxOff :
               /\ poll_motor(d)
               /\ Abs(Reported(CurrentTargets[ai].steps, d)
                        - CurrentTargets[ai].steps) <= 1
  /\ (pc = "poll_loop" /\ pc' = "final") => (AllDone \/ elapsed >= wait_time)

\* C25: within one call of _move_motors_to_targets every target of the
\* assignment is sent before any position is polled, a motor is marked
\* done only by a poll that reports a position within 1 step of its
\* target, and the polling ends only when all motors are done or the
\* timeout has elapsed.
C25_MoveProtocol == []C25_AllSentBeforePolling /\ [][C25_MoveStep]_vars

\* the call is about to return after a round in which one motor was marked
\* done and another was not, the timeout having elapsed
C25_Witness ==
  /\ pc = "report"
  /\ \E m \in DOMAIN done : done[m]
  /\ ~AllDone
  /\ elapsed >= wait_time
  /\ wait_time > 0

\* A step of the main thread that executes self._current_<s> = None.
ClearStep == pc = "clear" /\ (pc' # pc \/ ai' # ai)
\* The Sample the step removes from the latch is the one the acquisition
\* step appended to the series of that slot.
ClearedWasAppended ==
  LET s == ClearOrder(variant)[ai]
      series == data[CurrentPosition][s]
  IN  current[s] # None =>
        /\ Len(series) > 0
        /\ series[Len(series)] = current[s]

\* C27: the acquisition step clears from a slot only the Sample it
\* appended, so that every Sample the main thread removes from the latch
\* is in a series.
C27_ClearsOnlyAppended == [][ClearStep => ClearedWasAppended]_vars

\* the same, for the scripts that clear the slots they append
C27_OthersClearOnlyAppended ==
  [][(ClearStep /\ variant # "SingleQubit") => ClearedWasAppended]_vars

\* An iteration of Step 3 in a call that is going to return without the
\* timeout warning: every motor was marked done by some earlier poll.
ReadAtQuietReturn == pc = "final" /\ AllDone /\ (pc' # pc \/ ai' # ai)
\* The position Step 3 has just read is within the tolerance of the target.
ReadOnTarget ==
  /\ hw.get
  /\ WithinTolerance(final', CurrentTargets[ai].steps)

\* C28: when _move_motors_to_targets returns without the timeout warning,
\* the position every motor reports at the return is within 1 step of its
\* target, whatever the motors did after the poll that marked them done.
C28_OnTargetAtQuietReturn == [][ReadAtQuietReturn => ReadOnTarget]_vars

\* A step of the main thread that executes one append of the acquisition
\* step.
AppendStep == pc = "append" /\ data' # data
\* The Sample it appends was published after the move for the current
\* Setting returned.
AppendedIsFresh == AppendOrder(variant)[ai] \notin early

\* C26: every Sample appended to the series of a Setting was published
\* after the call that moved the motors to that Setting returned.
C26_AppendsOnlyFresh == [][AppendStep => AppendedIsFresh]_vars

\* the same, for the script that resets every slot it appends
C26_DoubleAppendsOnlyFresh ==
  [][(AppendStep /\ variant = "DoubleQubit") => AppendedIsFresh]_vars

\* run() has been entered with a driver that has one of the two setters.
RunEntered ==
  /\ pc = "run"
  /\ idx = 0
  /\ k = 0
  /\ IsTomography(variant) => (hw.setIdx \/ hw.setGeneric)
\* run() has printed its last message, every Setting having its n_samples
\* Samples in each series that is appended.
Complete ==
  /\ pc = "complete"
  /\ \A q \in RunPositions(variant) : \A s \in WaitSlots(variant) :
       Len(data[q][s]) = n_samples

\* C29: if every driver call returns and the event source keeps
\* publishing every required channel, run() of BASE, HBT, SingleQubit and
\* DoubleQubit eventually completes with every Setting processed, whether
\* the motors settle or time out.
C29_RunCompletes == RunEntered ~> Complete

\* a tomography run has completed with a Setting whose motors timed out and
\* a Setting whose motors settled
C29_Witness ==
  /\ Complete
  /\ IsTomography(variant)
  /\ warned # {}
  /\ warned # RunPositions(variant)
====
